---------------------------- MODULE Spec2Model ----------------------------
(***************************************************************************)
(* Model of the Sami LLM Proxy (src/src/index.ts): the 'connect' and       *)
(* 'request' handlers of the HTTP server, the access gates checkIP and     *)
(* checkAuth, the CONNECT tunnel and the HTTP relay.                       *)
(*                                                                         *)
(* Strings are sequences of tokens.  A token stands for one character or   *)
(* for a run of characters that the code never looks inside (a host name,  *)
(* an address, the scheme tag "Basic ").  The token ":" is the separator   *)
(* the code splits on.                                                     *)
(***************************************************************************)
EXTENDS Integers, Sequences, FiniteSets, TLC

(***************************************************************************)
(* Bounds of the model.                                                    *)
(***************************************************************************)
NSess == 2          \* connection slots
MaxOpen == 1        \* connections open at the same time
MaxRequests == 3    \* requests the clients send in one behaviour
MaxData == 2        \* bytes the two peers of a tunnel send after the CONNECT
Threshold == 2      \* brute-force threshold of the specification (spec.md 4.2)
MaxLog == 3         \* calls of log in one behaviour
MaxCredLen == 5     \* base64 symbols in a Proxy-Authorization value
Window == 1         \* brute-force window of the specification, in clock ticks
MaxTime == 3        \* last tick of the clock

Sess == 1..NSess

(***************************************************************************)
(* JavaScript values.                                                      *)
(***************************************************************************)
undefined == <<"\\undefined">>
NaN == -1

Falsy(str) == str = undefined \/ str = <<>>

\* String.prototype.split(':'): the fields between the separators; a string
\* without separator is one field, the empty string is one empty field.
RECURSIVE Split(_)
Split(str) ==
    IF \A i \in 1..Len(str) : str[i] # ":"
    THEN <<str>>
    ELSE LET k == CHOOSE i \in 1..Len(str) :
                     str[i] = ":" /\ \A j \in 1..(i - 1) : str[j] # ":"
         IN  <<SubSeq(str, 1, k - 1)>> \o Split(SubSeq(str, k + 1, Len(str)))

\* Array destructuring: the i-th element, undefined when the array is shorter.
Element(fields, i) == IF i <= Len(fields) THEN fields[i] ELSE undefined

(***************************************************************************)
(* Base64.  Each character has one code symbol (the symbols are the base64 *)
(* texts of the single characters).  Buffer.from(text, 'base64') never     *)
(* throws: it skips every symbol outside the alphabet.                     *)
(***************************************************************************)
Chars == {"u", "p", "x", ":"}
Base64Code == [c \in Chars |->
                 CASE c = "u" -> "dQ" [] c = "p" -> "cA"
                   [] c = "x" -> "eA" [] c = ":" -> "Og"]
Base64Symbols == {Base64Code[c] : c \in Chars}

RECURSIVE Base64Encode(_)
Base64Encode(str) ==
    IF str = <<>> THEN <<>>
    ELSE <<Base64Code[Head(str)]>> \o Base64Encode(Tail(str))

RECURSIVE Base64Decode(_)
Base64Decode(text) ==
    IF text = <<>> THEN <<>>
    ELSE IF Head(text) \in Base64Symbols
         THEN <<CHOOSE c \in Chars : Base64Code[c] = Head(text)>>
                  \o Base64Decode(Tail(text))
         ELSE Base64Decode(Tail(text))

(***************************************************************************)
(* State.                                                                  *)
(***************************************************************************)
VARIABLES
    ALLOWED_IPS,            \* configuration snapshot: set of address strings
    PROXY_AUTH_USERNAME,    \* string or undefined
    PROXY_AUTH_PASSWORD,    \* string or undefined
    PROXY_TIMEOUT_MS,       \* request timeout in milliseconds
    LOG_LEVEL,              \* configured verbosity, in lower case
    probe,                  \* the request under observation (SpecGate), else NoReq
    outcome,                \* per slot: branch the handler took
    clientIP,               \* per slot: clientIP of the handler's closure
    target,                 \* per slot: hostname/port of the handler's closure
    head,                   \* per slot: bytes that arrived with the CONNECT
    clientSocket,           \* per slot: client side socket
    targetSocket,           \* per slot: upstream socket of the tunnel
    res,                    \* per slot: http.ServerResponse of a 'request'
    proxyReq,               \* per slot: upstream request of the HTTP relay
    written,                \* per slot: the write calls the proxy made, in order
    failedChecks,           \* per address: consecutive failed credential checks
    ledger,                 \* per address: failure count the process keeps
    requestsSent,           \* requests received so far
    now,                    \* the clock, in ticks
    entry,                  \* per address: the brute-force entry that the
                            \* specification's ledger would hold (spec.md 3)
    server,                 \* "listening", "closing" (server.close() called)
                            \* or "exited" (process.exit(0) called)
    console                 \* the calls of log under observation (SpecLog):
                            \* the level of each and whether it was printed

config == <<ALLOWED_IPS, PROXY_AUTH_USERNAME, PROXY_AUTH_PASSWORD,
            PROXY_TIMEOUT_MS, LOG_LEVEL>>
session == <<outcome, clientIP, target, head, clientSocket, targetSocket,
             res, proxyReq, written>>
vars == <<config, probe, session, failedChecks, ledger, requestsSent, now, entry,
          server, console>>


(***************************************************************************)
(* Inputs: the requests a client can send.                                 *)
(***************************************************************************)
AddrA == <<"10.0.0.1">>
AddrB == <<"10.0.0.2">>
MappedA == <<"::ffff:", "10.0.0.1">>
Unknown == <<"unknown">>

User == <<"u">>
Pass == <<"p">>

Basic(str) == <<"Basic ">> \o Base64Encode(str)

ConnectUrls == {<<":", "443">>, <<"example.com", ":", "443">>}
GateConnectUrls == ConnectUrls \cup {<<"example.com">>}
HttpUrls == {<<"/">>, <<"http://", "example.com", "/a">>}
Heads == {<<>>, <<[kind |-> "data", status |-> 1, text |-> "client", headers |-> {}]>>}

\* The other headers of a request (req.headers has lower-case names).
ClientHost == <<"host", <<"other.example">>>>
PlainHeaders == {ClientHost, <<"accept", <<"*/*">>>>}

NoReq == [method |-> "NONE", url |-> <<>>, remoteAddress |-> <<>>,
          authHeader |-> <<>>, head |-> <<>>, keepAlive |-> FALSE,
          headers |-> {}]

RequestsOver(addrs, headers, connectUrls, heads) ==
    [method : {"CONNECT"}, url : connectUrls, remoteAddress : addrs,
     authHeader : headers, head : heads, keepAlive : {FALSE},
     headers : {PlainHeaders}]
    \cup
    [method : {"GET"}, url : HttpUrls, remoteAddress : addrs,
     authHeader : headers, head : {<<>>}, keepAlive : BOOLEAN,
     headers : {PlainHeaders}]

\* The requests of the full specification: credentials missing, right, wrong
\* and right with trailing text.
Headers == {undefined, Basic(User \o <<":">> \o Pass),
            Basic(User \o <<":">> \o <<"x">>),
            Basic(User \o <<":">> \o Pass \o <<":", "x">>)}
Requests == RequestsOver({MappedA, AddrB}, Headers, ConnectUrls, Heads)

\* The requests of the gate specification: every Proxy-Authorization value
\* of up to MaxCredLen base64 symbols ("!" is outside the alphabet) under
\* two scheme tags, or none.
CredSymbols == {"dQ", "cA", "Og", "!"}
Texts == UNION {[1..k -> CredSymbols] : k \in 0..MaxCredLen}
GateHeaders == {undefined, <<>>}
               \cup {<<scheme>> \o text : scheme \in {"Basic ", "Bearer "},
                                          text \in Texts}
GateRequests == RequestsOver({MappedA, AddrB, undefined}, GateHeaders,
                             GateConnectUrls, {<<>>})

(***************************************************************************)
(* The gates.                                                              *)
(***************************************************************************)
\* The address compared as it came, with its prefix.
StripMapped_Keep(ip) == ip

\* clientIP.replace(/^::ffff:/, '')
StripMapped(ip) == IF Len(ip) >= 1 /\ ip[1] = "::ffff:" THEN Tail(ip) ELSE ip

\* checkIP with the emptiness test inverted.
checkIP_Inverted(ip) ==
    IF ALLOWED_IPS # {}
    THEN TRUE
    ELSE LET cleanIP == StripMapped(ip)
         IN  cleanIP \in ALLOWED_IPS \/ ip \in ALLOWED_IPS

checkIP(ip) ==
    IF ALLOWED_IPS = {}
    THEN TRUE
    ELSE LET cleanIP == StripMapped(ip)
         IN  cleanIP \in ALLOWED_IPS \/ ip \in ALLOWED_IPS

\* The credential gate switched off only when neither value is configured.
AuthDisabled_BothMissing ==
    Falsy(PROXY_AUTH_USERNAME) /\ Falsy(PROXY_AUTH_PASSWORD)

\* !PROXY_AUTH_USERNAME || !PROXY_AUTH_PASSWORD
AuthDisabled == Falsy(PROXY_AUTH_USERNAME) \/ Falsy(PROXY_AUTH_PASSWORD)

\* checkAuth without the test of the scheme tag.
checkAuth_AnyScheme(authHeader) ==
    IF AuthDisabled
    THEN TRUE
    ELSE IF Falsy(authHeader)
    THEN FALSE
    ELSE LET credentials == Base64Decode(Tail(authHeader))
             fields == Split(credentials)
             username == Element(fields, 1)
             password == Element(fields, 2)
         IN  username = PROXY_AUTH_USERNAME /\ password = PROXY_AUTH_PASSWORD

checkAuth(authHeader) ==
    IF AuthDisabled
    THEN TRUE
    ELSE IF Falsy(authHeader) \/ Head(authHeader) # "Basic "
    THEN FALSE
    ELSE LET credentials == Base64Decode(Tail(authHeader))
             fields == Split(credentials)
             username == Element(fields, 1)
             password == Element(fields, 2)
         IN  username = PROXY_AUTH_USERNAME /\ password = PROXY_AUTH_PASSWORD

\* parseInt(portStr, 10): the leading number of the string, else NaN.
parseInt(str) ==
    IF str = <<>> THEN NaN
    ELSE CASE Head(str) = "443" -> 443
           [] Head(str) = "80" -> 80
           [] Head(str) = "8080" -> 8080
           [] Head(str) = "0" -> 0
           [] Head(str) = "99999" -> 99999
           [] Head(str) = "5000" -> 5000
           [] Head(str) = "1200000" -> 1200000
           [] OTHER -> NaN

\* url.parse(targetUrl) of an absolute URL
\* <<scheme>> \o (<<hostname>>) \o (<<":", port>>) \o (<<pathname>>) \o (<<search>>),
\* the parts in parentheses being optional; path is pathname and search.  A
\* URL without host has the empty hostname and host.
parseUrl(url) ==
    LET hasHost == Len(url) >= 2 /\ url[2] \notin {"/", "/a"}
        hasPort == hasHost /\ Len(url) >= 4 /\ url[3] = ":"
        rest == SubSeq(url, IF hasPort THEN 5 ELSE IF hasHost THEN 3 ELSE 2,
                       Len(url))
        hasPath == rest # <<>> /\ Head(rest) \in {"/", "/a"}
        pathname == IF hasPath THEN <<Head(rest)>> ELSE <<"/">>
        query == IF hasPath THEN Tail(rest) ELSE rest
        search == IF query = <<>> THEN undefined ELSE query
    IN  [protocol |-> IF url[1] = "https://" THEN "https:" ELSE "http:",
         hostname |-> IF hasHost THEN <<url[2]>> ELSE <<>>,
         port |-> IF hasPort THEN <<url[4]>> ELSE undefined,
         host |-> IF hasPort THEN <<url[2], ":", url[4]>>
                  ELSE IF hasHost THEN <<url[2]>> ELSE <<>>,
         search |-> search,
         path |-> IF search = undefined THEN pathname ELSE pathname \o search]


(***************************************************************************)
(* Logging.                                                                *)
(***************************************************************************)
\* String.prototype.toLowerCase on the level names in use.
ToLowerCase(str) ==
    CASE str = <<"ERROR">> -> <<"error">>
      [] str = <<"Info">> -> <<"info">>
      [] str = <<"DEBUG">> -> <<"debug">>
      [] OTHER -> str

\* (process.env.LOG_LEVEL || 'info').toLowerCase()
LogLevelOf(env) == ToLowerCase(IF Falsy(env) THEN <<"info">> ELSE env)

\* levels[name] of the object literal { error: 0, info: 1, debug: 2 }: the
\* number of an own property, the value inherited from Object.prototype
\* (a function or an object, NaN in a comparison) or undefined.
Lookup(name) ==
    CASE name = <<"error">> -> 0
      [] name = <<"info">> -> 1
      [] name = <<"debug">> -> 2
      [] name \in {<<"constructor">>, <<"__proto__">>} -> NaN
      [] OTHER -> -2

\* a ?? b, the missing property being -2
Coalesce(a, b) == IF a = -2 THEN b ELSE a

\* a <= b of JavaScript: false when an operand is NaN.
LessOrEqual(a, b) == a # NaN /\ b # NaN /\ a <= b

\* log(level, message, data): whether console.log is called.
logPrints(level) ==
    LET currentLevel == Coalesce(Lookup(LOG_LEVEL), Lookup(<<"info">>))
        messageLevel == Coalesce(Lookup(level), 0)
    IN  LessOrEqual(messageLevel, currentLevel)

\* parseInt(process.env.PROXY_TIMEOUT_MS || '1200000', 10)
TimeoutOf(env) == parseInt(IF Falsy(env) THEN <<"1200000">> ELSE env)
TimeoutEnvs == {undefined, <<>>, <<"5000">>}

(***************************************************************************)
(* Sockets, responses and what is written to them.                         *)
(***************************************************************************)
NoSocket == [created |-> FALSE, connected |-> FALSE, destroyed |-> FALSE,
             writableEnded |-> FALSE, readableEnded |-> FALSE, closed |-> FALSE,
             timeout |-> 0]
NewSocket == [NoSocket EXCEPT !.created = TRUE]
NoRes == [headersSent |-> FALSE, finished |-> FALSE, shouldKeepAlive |-> FALSE]
NoOptions == [hostname |-> <<>>, port |-> 0, path |-> <<>>, method |-> "NONE",
              headers |-> {}, isHttps |-> FALSE]
NoProxyRes == [statusCode |-> 0, headers |-> {}]
NoProxyReq == [created |-> FALSE, responded |-> FALSE, destroyed |-> FALSE,
               timedOut |-> FALSE, errored |-> FALSE, timeout |-> 0,
               options |-> NoOptions, proxyRes |-> NoProxyRes]
NoTarget == [hostname |-> <<>>, port |-> 0]

\* A raw text written on a socket, an HTTP response written through res, and
\* the n-th byte of a peer's stream.
Line(text) == [kind |-> "line", status |-> 0, text |-> text, headers |-> {}]
Http(status, headers, body) ==
    [kind |-> "http", status |-> status, text |-> body, headers |-> headers]
Data(peer, n) == [kind |-> "data", status |-> n, text |-> peer, headers |-> {}]

BadRequest400 == Line("HTTP/1.1 400 Bad Request\r\n\r\n")
Forbidden403 == Line("HTTP/1.1 403 Forbidden\r\n\r\n")
AuthRequired407 ==
    Line("HTTP/1.1 407 Proxy Authentication Required\r\nProxy-Authenticate: Basic realm=\"Sami LLM Proxy\"\r\n\r\n")
Established200 == Line("HTTP/1.1 200 Connection Established\r\n\r\n")
BadGateway502 == Line("HTTP/1.1 502 Bad Gateway\r\n\r\n")
GatewayTimeout504 == Line("HTTP/1.1 504 Gateway Timeout\r\n\r\n")

TextPlain == {<<"Content-Type", "text/plain">>}
Challenge == {<<"Content-Type", "text/plain">>,
              <<"Proxy-Authenticate", "Basic realm=\"Sami LLM Proxy\"">>}

Writable(sock) == ~sock.destroyed /\ ~sock.writableEnded

\* socket.write(data): the call is recorded; the data reach the peer only
\* when the socket is neither destroyed nor ended.
Write(log, to, sock, data) ==
    Append(log, [to |-> to, data |-> data, ok |-> Writable(sock)])

\* socket.write(buffer): one record for each byte of the buffer.
RECURSIVE WriteAll(_, _, _, _)
WriteAll(log, to, sock, bytes) ==
    IF bytes = <<>> THEN log
    ELSE WriteAll(Write(log, to, sock, Head(bytes)), to, sock, Tail(bytes))

\* What reached the client, and what reached the upstream, in order.
RECURSIVE Delivered(_, _)
Delivered(log, to) ==
    IF log = <<>> THEN <<>>
    ELSE IF Head(log).to = to /\ Head(log).ok
         THEN <<Head(log).data>> \o Delivered(Tail(log), to)
         ELSE Delivered(Tail(log), to)

\* Number of 'data' events already piped towards a socket.
Piped(log, to) ==
    Cardinality({i \in DOMAIN log : log[i].to = to /\ log[i].data.kind = "data"})

End(sock) == [sock EXCEPT !.writableEnded = TRUE]
Destroy(sock) == [sock EXCEPT !.destroyed = TRUE]

\* res.end(): the response is finished; Node ends the connection after it
\* unless the request asked to keep it alive.
EndResponse(sock, response) ==
    IF response.shouldKeepAlive THEN sock ELSE End(sock)

(***************************************************************************)
(* Brute-force bookkeeping.                                                *)
(***************************************************************************)
ClientIPs == {AddrA, AddrB, Unknown}

Min(a, b) == IF a < b THEN a ELSE b

\* History of the credential checks of an address: the number of consecutive
\* failures, counted up to Threshold.
Failed(count, ip) ==
    [count EXCEPT ![StripMapped(ip)] = Min(@ + 1, Threshold)]
Succeeded(count, ip) == [count EXCEPT ![StripMapped(ip)] = 0]

\* The ledger of the specification (spec.md 4.2): an entry is a failure count,
\* the tick at which its window ends and the tick at which its lockout ends
\* (0: none).  The lockout lasts twice the window, capped.
NoEntry == [count |-> 0, windowReset |-> 0, lockoutUntil |-> 0]
LockoutTime == Min(2 * Window, MaxTime)
Admit(e, t) == e.lockoutUntil <= t
RecordFailure(e, t) ==
    LET live == e.count > 0 /\ e.windowReset > t
        count == IF live THEN e.count + 1 ELSE 1
    IN  [count |-> count,
         windowReset |-> IF live THEN e.windowReset ELSE t + Window,
         lockoutUntil |-> IF count >= Threshold THEN t + LockoutTime ELSE 0]


(***************************************************************************)
(* Init.                                                                   *)
(***************************************************************************)
Idle ==
    /\ outcome = [s \in Sess |-> "free"]
    /\ clientIP = [s \in Sess |-> <<>>]
    /\ target = [s \in Sess |-> NoTarget]
    /\ head = [s \in Sess |-> <<>>]
    /\ clientSocket = [s \in Sess |-> NoSocket]
    /\ targetSocket = [s \in Sess |-> NoSocket]
    /\ res = [s \in Sess |-> NoRes]
    /\ proxyReq = [s \in Sess |-> NoProxyReq]
    /\ written = [s \in Sess |-> <<>>]
    /\ failedChecks = [a \in ClientIPs |-> 0]
    /\ ledger = [a \in ClientIPs |-> 0]
    /\ requestsSent = 0
    /\ now = 0
    /\ entry = [a \in ClientIPs |-> NoEntry]
    /\ server = "listening"
    /\ console = <<>>

Init ==
    /\ LOG_LEVEL = LogLevelOf(undefined)
    /\ PROXY_TIMEOUT_MS = TimeoutOf(undefined)
    /\ ALLOWED_IPS \in {{}, {AddrA}}
    /\ \/ PROXY_AUTH_USERNAME = undefined /\ PROXY_AUTH_PASSWORD = undefined
       \/ PROXY_AUTH_USERNAME = User /\ PROXY_AUTH_PASSWORD = Pass
    /\ probe = NoReq
    /\ Idle

(***************************************************************************)
(* An exception thrown in a handler.  Nothing catches it (no try around    *)
(* net.createConnection or client.request, no 'uncaughtException'          *)
(* listener): the process exits and every connection goes with it.         *)
(***************************************************************************)
\* The ports net.createConnection and client.request take; any other port
\* makes them throw ERR_SOCKET_BAD_PORT before they return.
ValidPort(port) == port >= 0 /\ port <= 65535

Running == \A t \in Sess : outcome[t] # "crash"

Exit(sock) ==
    IF sock.created THEN [sock EXCEPT !.destroyed = TRUE, !.closed = TRUE]
    ELSE sock

\* The handler of the request on slot s throws.
Crash(s, sock) ==
    /\ outcome' = [t \in Sess |-> IF t = s \/ outcome[t] # "free"
                                  THEN "crash" ELSE "free"]
    /\ clientSocket' = [t \in Sess |-> IF t = s THEN Exit(sock)
                                        ELSE Exit(clientSocket[t])]
    /\ targetSocket' = [t \in Sess |-> Exit(targetSocket[t])]
    /\ proxyReq' = [t \in Sess |->
                      IF proxyReq[t].created
                      THEN [proxyReq[t] EXCEPT !.destroyed = TRUE]
                      ELSE proxyReq[t]]
    /\ written' = [written EXCEPT ![s] = <<>>]
    /\ UNCHANGED <<target, head, res>>

(***************************************************************************)
(* server.on('connect'): the handler of a CONNECT request.                 *)
(***************************************************************************)
\* clientSocket.write(line); clientSocket.end(); return
RejectConnect(s, sock, status, line) ==
    /\ outcome' = [outcome EXCEPT ![s] = status]
    /\ written' = [written EXCEPT ![s] = Write(<<>>, "client", sock, line)]
    /\ clientSocket' = [clientSocket EXCEPT ![s] = End(sock)]
    /\ UNCHANGED <<target, head, targetSocket, res, proxyReq>>

\* The options of net.createConnection with a timeout of its own.
ConnectOptions_FixedTimeout(hostname, port) ==
    [host |-> hostname, port |-> port, timeout |-> 30000]

\* { host: hostname, port: port, timeout: PROXY_TIMEOUT_MS }
ConnectOptions(hostname, port) ==
    [host |-> hostname, port |-> port, timeout |-> PROXY_TIMEOUT_MS]

\* The tunnel answered before the upstream connection exists.
OpenTunnel_EarlyReply(s, sock, hostname, port, data) ==
    /\ outcome' = [outcome EXCEPT ![s] = "tunnel"]
    /\ target' = [target EXCEPT ![s] = [hostname |-> hostname, port |-> port]]
    /\ head' = [head EXCEPT ![s] = data]
    /\ clientSocket' = [clientSocket EXCEPT ![s] = sock]
    /\ targetSocket' =
         [targetSocket EXCEPT
            ![s] = [NewSocket EXCEPT
                      !.timeout = ConnectOptions(hostname, port).timeout]]
    /\ written' = [written EXCEPT
                     ![s] = Write(<<>>, "client", sock, Established200)]
    /\ UNCHANGED <<res, proxyReq>>

\* net.createConnection(options, callback) and the listeners on the two
\* sockets: the closure of the session.  Nothing is written yet.
OpenTunnel(s, sock, hostname, port, data) ==
    /\ outcome' = [outcome EXCEPT ![s] = "tunnel"]
    /\ target' = [target EXCEPT ![s] = [hostname |-> hostname, port |-> port]]
    /\ head' = [head EXCEPT ![s] = data]
    /\ clientSocket' = [clientSocket EXCEPT ![s] = sock]
    /\ targetSocket' =
         [targetSocket EXCEPT
            ![s] = [NewSocket EXCEPT
                      !.timeout = ConnectOptions(hostname, port).timeout]]
    /\ written' = [written EXCEPT ![s] = <<>>]
    /\ UNCHANGED <<res, proxyReq>>

OnConnect(s, r) ==
    LET sock == [NewSocket EXCEPT !.connected = TRUE,
                                  !.destroyed = (r.remoteAddress = undefined)]
        ip == IF Falsy(r.remoteAddress) THEN Unknown ELSE r.remoteAddress
        targetUrl == IF Falsy(r.url) THEN <<>> ELSE r.url
        fields == Split(targetUrl)
        hostname == Element(fields, 1)
        portStr == Element(fields, 2)
        port == IF ~Falsy(portStr) THEN parseInt(portStr) ELSE 443
        authHeader == r.authHeader
    IN  /\ r.method = "CONNECT"
        /\ outcome[s] = "free"
        /\ Running
        /\ server = "listening"
        /\ requestsSent < MaxRequests
        /\ requestsSent' = requestsSent + 1
        /\ clientIP' = [clientIP EXCEPT ![s] = ip]
        /\ IF Falsy(hostname)
           THEN /\ RejectConnect(s, sock, "400", BadRequest400)
                /\ UNCHANGED failedChecks
           ELSE IF ~checkIP(ip)
           THEN /\ RejectConnect(s, sock, "403", Forbidden403)
                /\ UNCHANGED failedChecks
           ELSE IF ~checkAuth(authHeader)
           THEN /\ RejectConnect(s, sock, "407", AuthRequired407)
                /\ failedChecks' = Failed(failedChecks, ip)
           ELSE IF ~ValidPort(port)
           THEN /\ Crash(s, sock)
                /\ failedChecks' = Succeeded(failedChecks, ip)
           ELSE /\ OpenTunnel(s, sock, hostname, port, r.head)
                /\ failedChecks' = Succeeded(failedChecks, ip)
        /\ UNCHANGED <<config, ledger, server, console>>

(***************************************************************************)
(* proxyHttpRequest: the options of the outbound request.                  *)
(***************************************************************************)
\* req.headers: the Proxy-Authorization header, when sent, is one of them.
ReqHeaders(req) ==
    req.headers \cup (IF req.authHeader = undefined THEN {}
                      ELSE {<<"proxy-authorization", req.authHeader>>})

\* delete headers[name]
Delete(headers, name) == {h \in headers : h[1] # name}

\* The headers of the outbound request with the client's Connection header
\* left in.
OutboundHeaders_KeepConnection(req, hostHeader) ==
    LET spread == Delete(ReqHeaders(req), "host") \cup {<<"host", hostHeader>>}
    IN  Delete(Delete(spread, "proxy-authorization"), "proxy-connection")

\* { ...req.headers, host: hostHeader } and the three deletes.
OutboundHeaders(req, hostHeader) ==
    LET spread == Delete(ReqHeaders(req), "host") \cup {<<"host", hostHeader>>}
    IN  Delete(Delete(Delete(spread, "proxy-authorization"),
                      "proxy-connection"), "connection")

Options(req, targetUrl) ==
    LET parsedUrl == parseUrl(targetUrl)
        port == IF ~Falsy(parsedUrl.port) THEN parseInt(parsedUrl.port)
                ELSE IF parsedUrl.protocol = "https:" THEN 443 ELSE 80
        isHttps == parsedUrl.protocol = "https:" \/ port = 443
        path == IF ~Falsy(parsedUrl.path) THEN parsedUrl.path ELSE <<"/">>
        fullPath == IF ~Falsy(parsedUrl.search) THEN path \o parsedUrl.search
                    ELSE path
        finalPort == IF port # 0 /\ port # NaN THEN port
                     ELSE IF isHttps THEN 443 ELSE 80
        hostHeader == IF ~Falsy(parsedUrl.host) THEN parsedUrl.host
                      ELSE parsedUrl.hostname \o <<":", ToString(finalPort)>>
    IN  [hostname |-> parsedUrl.hostname,
         port |-> finalPort,
         path |-> fullPath,
         method |-> req.method,
         headers |-> OutboundHeaders(req, hostHeader),
         isHttps |-> isHttps]

(***************************************************************************)
(* server.on('request'): the handler of every other request.               *)
(***************************************************************************)
\* res.writeHead(status, headers); res.end(body); return
Respond(s, sock, response, status, label, headers, body) ==
    /\ outcome' = [outcome EXCEPT ![s] = label]
    /\ written' = [written EXCEPT
                     ![s] = Write(<<>>, "client", sock, Http(status, headers, body))]
    /\ res' = [res EXCEPT ![s] = [response EXCEPT !.headersSent = TRUE,
                                                  !.finished = TRUE]]
    /\ clientSocket' = [clientSocket EXCEPT ![s] = EndResponse(sock, response)]
    /\ UNCHANGED <<proxyReq, target, head, targetSocket>>

OnRequest(s, r) ==
    LET sock == [NewSocket EXCEPT !.connected = TRUE,
                                  !.destroyed = (r.remoteAddress = undefined)]
        response == [NoRes EXCEPT !.shouldKeepAlive = r.keepAlive]
        ip == IF Falsy(r.remoteAddress) THEN Unknown ELSE r.remoteAddress
        authHeader == r.authHeader
    IN  /\ r.method # "CONNECT"
        /\ r.method # "NONE"
        /\ outcome[s] = "free"
        /\ Running
        /\ server = "listening"
        /\ requestsSent < MaxRequests
        /\ requestsSent' = requestsSent + 1
        /\ clientIP' = [clientIP EXCEPT ![s] = ip]
        /\ IF ~checkIP(ip)
           THEN /\ Respond(s, sock, response, 403, "403", TextPlain,
                           "IP address not allowed")
                /\ UNCHANGED failedChecks
           ELSE IF ~checkAuth(authHeader)
           THEN /\ Respond(s, sock, response, 407, "407", Challenge,
                           "Proxy authentication required")
                /\ failedChecks' = Failed(failedChecks, ip)
           ELSE /\ failedChecks' = Succeeded(failedChecks, ip)
                /\ IF Falsy(r.url)
                   THEN Respond(s, sock, response, 400, "400", TextPlain,
                                "Bad Request: No URL")
                   ELSE IF Head(r.url) \in {"http://", "https://"}
                   THEN IF ~ValidPort(Options(r, r.url).port)
                        THEN Crash(s, sock)
                        ELSE /\ outcome' = [outcome EXCEPT ![s] = "relay"]
                             /\ clientSocket' = [clientSocket EXCEPT ![s] = sock]
                             /\ res' = [res EXCEPT ![s] = response]
                             /\ proxyReq' =
                                  [proxyReq EXCEPT
                                     ![s] = [NoProxyReq EXCEPT
                                               !.created = TRUE,
                                               !.timeout = PROXY_TIMEOUT_MS,
                                               !.options = Options(r, r.url)]]
                             /\ written' = [written EXCEPT ![s] = <<>>]
                             /\ UNCHANGED <<target, head, targetSocket>>
                   ELSE Respond(s, sock, response, 200, "info", TextPlain,
                                "Sami LLM Proxy Server is running. Use this as HTTP/HTTPS proxy.")
        /\ UNCHANGED <<config, ledger, server, console>>


(***************************************************************************)
(* The CONNECT tunnel.                                                     *)
(***************************************************************************)
gates == <<config, probe, failedChecks, ledger, requestsSent, now, entry,
           server, console>>
closure == <<outcome, clientIP, target, head>>
relay == <<res, proxyReq>>

\* After process.exit(0) no handler runs.
Alive == server # "exited"

Tunnel(s) == outcome[s] = "tunnel" /\ Alive

\* The connect callback with the buffered head forwarded before the reply.
TargetConnect_HeadFirst(s) ==
    /\ Tunnel(s)
    /\ ~targetSocket[s].connected /\ ~targetSocket[s].destroyed
    /\ targetSocket' = [targetSocket EXCEPT ![s].connected = TRUE]
    /\ written' = [written EXCEPT
                     ![s] = Write(WriteAll(@, "target", targetSocket[s], head[s]),
                                  "client", clientSocket[s], Established200)]
    /\ UNCHANGED <<gates, closure, relay, clientSocket>>

\* The connect callback of net.createConnection.
TargetConnect(s) ==
    /\ Tunnel(s)
    /\ ~targetSocket[s].connected /\ ~targetSocket[s].destroyed
    /\ targetSocket' = [targetSocket EXCEPT ![s].connected = TRUE]
    /\ LET established == Write(written[s], "client", clientSocket[s],
                                Established200)
       IN  written' = [written EXCEPT
                         ![s] = IF Len(head[s]) > 0
                                THEN WriteAll(established, "target",
                                              targetSocket[s], head[s])
                                ELSE established]
    /\ UNCHANGED <<gates, closure, relay, clientSocket>>

\* clientSocket.pipe(targetSocket, { end: false }): a chunk from the client.
ClientData(s) ==
    /\ Tunnel(s)
    /\ targetSocket[s].connected /\ ~targetSocket[s].closed
    /\ ~clientSocket[s].destroyed /\ ~clientSocket[s].readableEnded
    /\ Piped(written[s], "target") + Piped(written[s], "client")
           < Len(head[s]) + MaxData
    /\ written' = [written EXCEPT
                     ![s] = Write(@, "target", targetSocket[s],
                                  Data("client", Piped(@, "target") + 1))]
    /\ UNCHANGED <<gates, closure, relay, clientSocket, targetSocket>>

\* targetSocket.pipe(clientSocket, { end: false }): a chunk from the upstream.
UpstreamData(s) ==
    /\ Tunnel(s)
    /\ targetSocket[s].connected /\ ~targetSocket[s].destroyed
    /\ ~clientSocket[s].closed
    /\ Piped(written[s], "target") + Piped(written[s], "client")
           < Len(head[s]) + MaxData
    /\ written' = [written EXCEPT
                     ![s] = Write(@, "client", clientSocket[s],
                                  Data("upstream", Piped(@, "client") + 1))]
    /\ UNCHANGED <<gates, closure, relay, clientSocket, targetSocket>>

\* The error handler with the test of the client socket inverted.
TargetError_Silent(s) ==
    /\ Tunnel(s)
    /\ ~targetSocket[s].destroyed
    /\ targetSocket' = [targetSocket EXCEPT ![s].destroyed = TRUE,
                                            ![s].closed = TRUE]
    /\ IF ~Writable(clientSocket[s])
       THEN /\ written' = [written EXCEPT
                             ![s] = Write(@, "client", clientSocket[s],
                                          BadGateway502)]
            /\ clientSocket' = [clientSocket EXCEPT ![s] = Destroy(End(@))]
       ELSE /\ clientSocket' = [clientSocket EXCEPT ![s] = Destroy(@)]
            /\ UNCHANGED written
    /\ UNCHANGED <<gates, closure, relay>>

\* targetSocket.on('error') followed by targetSocket.on('close'): Node
\* destroys the socket and emits both events in the same tick.
TargetError(s) ==
    /\ Tunnel(s)
    /\ ~targetSocket[s].destroyed
    /\ targetSocket' = [targetSocket EXCEPT ![s].destroyed = TRUE,
                                            ![s].closed = TRUE]
    /\ IF Writable(clientSocket[s])
       THEN /\ written' = [written EXCEPT
                             ![s] = Write(@, "client", clientSocket[s],
                                          BadGateway502)]
            /\ clientSocket' = [clientSocket EXCEPT ![s] = Destroy(End(@))]
       ELSE /\ clientSocket' = [clientSocket EXCEPT ![s] = Destroy(@)]
            /\ UNCHANGED written
    /\ UNCHANGED <<gates, closure, relay>>

\* The timeout handler without targetSocket.destroy().
TargetTimeout_NoDestroy(s) ==
    /\ Tunnel(s)
    /\ ~targetSocket[s].destroyed
    /\ targetSocket[s].timeout > 0
    /\ IF Writable(clientSocket[s])
       THEN /\ written' = [written EXCEPT
                             ![s] = Write(@, "client", clientSocket[s],
                                          GatewayTimeout504)]
            /\ clientSocket' = [clientSocket EXCEPT ![s] = End(@)]
       ELSE UNCHANGED <<written, clientSocket>>
    /\ UNCHANGED <<gates, closure, relay, targetSocket>>

\* targetSocket.on('timeout'): the socket was idle for PROXY_TIMEOUT_MS.
TargetTimeout(s) ==
    /\ Tunnel(s)
    /\ ~targetSocket[s].destroyed
    /\ targetSocket[s].timeout > 0
    /\ IF Writable(clientSocket[s])
       THEN /\ written' = [written EXCEPT
                             ![s] = Write(@, "client", clientSocket[s],
                                          GatewayTimeout504)]
            /\ clientSocket' = [clientSocket EXCEPT ![s] = End(@)]
       ELSE UNCHANGED <<written, clientSocket>>
    /\ targetSocket' = [targetSocket EXCEPT ![s] = Destroy(@)]
    /\ UNCHANGED <<gates, closure, relay>>

\* The upstream closes the connection: the socket ends and is destroyed.
UpstreamEnd(s) ==
    /\ Tunnel(s)
    /\ targetSocket[s].connected /\ ~targetSocket[s].destroyed
    /\ targetSocket' = [targetSocket EXCEPT ![s] = Destroy(@)]
    /\ UNCHANGED <<gates, closure, relay, clientSocket, written>>

\* The 'close' handler of the upstream socket without clientSocket.destroy().
TargetClose_NoDestroy(s) ==
    /\ Tunnel(s)
    /\ targetSocket[s].destroyed /\ ~targetSocket[s].closed
    /\ targetSocket' = [targetSocket EXCEPT ![s].closed = TRUE]
    /\ UNCHANGED <<gates, closure, relay, written, clientSocket>>

\* targetSocket.on('close') after a destroy() without error.
TargetClose(s) ==
    /\ Tunnel(s)
    /\ targetSocket[s].destroyed /\ ~targetSocket[s].closed
    /\ targetSocket' = [targetSocket EXCEPT ![s].closed = TRUE]
    /\ clientSocket' = [clientSocket EXCEPT ![s] = Destroy(@)]
    /\ UNCHANGED <<gates, closure, relay, written>>

\* The client half-closes the tunnel (FIN): the sockets of an http.Server
\* allow half-open connections, the pipe has end: false and the handler has
\* no 'end' listener, so only the read side of the client socket ends.
ClientEnd(s) ==
    /\ Tunnel(s)
    /\ ~clientSocket[s].destroyed /\ ~clientSocket[s].readableEnded
    /\ clientSocket' = [clientSocket EXCEPT ![s].readableEnded = TRUE]
    /\ UNCHANGED <<gates, closure, relay, targetSocket, written>>

\* The client goes away: its socket is destroyed, 'close' follows later.
ClientDisconnect(s) ==
    /\ outcome[s] # "free"
    /\ ~clientSocket[s].destroyed
    /\ clientSocket' = [clientSocket EXCEPT ![s] = Destroy(@)]
    /\ UNCHANGED <<gates, closure, relay, targetSocket, written>>

\* clientSocket.on('error') and clientSocket.on('close') of the tunnel.
DestroyTarget(s) ==
    IF Tunnel(s) /\ ~targetSocket[s].destroyed
    THEN targetSocket' = [targetSocket EXCEPT ![s] = Destroy(@)]
    ELSE UNCHANGED targetSocket

ClientError(s) ==
    /\ outcome[s] # "free"
    /\ ~clientSocket[s].destroyed
    /\ clientSocket' = [clientSocket EXCEPT ![s].destroyed = TRUE,
                                            ![s].closed = TRUE]
    /\ DestroyTarget(s)
    /\ UNCHANGED <<gates, closure, relay, written>>

ClientClose(s) ==
    /\ outcome[s] # "free"
    /\ clientSocket[s].destroyed /\ ~clientSocket[s].closed
    /\ clientSocket' = [clientSocket EXCEPT ![s].closed = TRUE]
    /\ DestroyTarget(s)
    /\ UNCHANGED <<gates, closure, relay, written>>


(***************************************************************************)
(* The HTTP relay (proxyHttpRequest).                                      *)
(***************************************************************************)
tunnel == <<target, head, targetSocket>>
UpstreamStatuses == {200, 404}
UpstreamHeaders == {<<"content-type", <<"text/html">>>>,
                    <<"connection", <<"close">>>>}
UpstreamResponses == {[statusCode |-> 200, headers |-> {}],
                      [statusCode |-> 404, headers |-> UpstreamHeaders]}

Relay(s) == outcome[s] = "relay" /\ proxyReq[s].created /\ Alive

\* proxyRes.statusCode || 200
OrDefault(statusCode) == IF statusCode = 0 THEN 200 ELSE statusCode

\* The response callback with the status of the upstream dropped.
ProxyResponse_Status200(s) ==
    /\ Relay(s)
    /\ ~proxyReq[s].responded /\ ~proxyReq[s].destroyed
    /\ ~res[s].headersSent
    /\ \E proxyRes \in UpstreamResponses :
         /\ written' = [written EXCEPT
                          ![s] = Write(@, "client", clientSocket[s],
                                       Http(200, proxyRes.headers, "upstream"))]
         /\ proxyReq' = [proxyReq EXCEPT ![s].responded = TRUE,
                                         ![s].proxyRes = proxyRes]
    /\ res' = [res EXCEPT ![s].headersSent = TRUE]
    /\ UNCHANGED <<gates, outcome, clientIP, tunnel, clientSocket>>

\* The response callback of client.request: res.writeHead(status, headers)
\* and proxyRes.pipe(res).
ProxyResponse(s) ==
    /\ Relay(s)
    /\ ~proxyReq[s].responded /\ ~proxyReq[s].destroyed
    /\ ~res[s].headersSent
    /\ \E proxyRes \in UpstreamResponses :
         /\ written' = [written EXCEPT
                          ![s] = Write(@, "client", clientSocket[s],
                                       Http(OrDefault(proxyRes.statusCode),
                                            proxyRes.headers, "upstream"))]
         /\ proxyReq' = [proxyReq EXCEPT ![s].responded = TRUE,
                                         ![s].proxyRes = proxyRes]
    /\ res' = [res EXCEPT ![s].headersSent = TRUE]
    /\ UNCHANGED <<gates, outcome, clientIP, tunnel, clientSocket>>

\* The upstream response ends: the pipe calls res.end().
ProxyResponseEnd(s) ==
    /\ Relay(s)
    /\ proxyReq[s].responded /\ ~proxyReq[s].destroyed
    /\ ~res[s].finished
    /\ res' = [res EXCEPT ![s].finished = TRUE]
    /\ clientSocket' = [clientSocket EXCEPT ![s] = EndResponse(@, res[s])]
    /\ UNCHANGED <<gates, outcome, clientIP, tunnel, proxyReq, written>>

\* The error handler opening the upstream request again instead of
\* answering 502.
ProxyError_Retry(s) ==
    /\ Relay(s)
    /\ ~proxyReq[s].errored
    /\ ~proxyReq[s].destroyed \/ ~proxyReq[s].responded
    /\ ~(proxyReq[s].responded /\ res[s].finished)
    /\ IF ~res[s].headersSent
       THEN proxyReq' = [proxyReq EXCEPT
                           ![s] = [NoProxyReq EXCEPT
                                     !.created = TRUE, !.errored = TRUE,
                                     !.options = proxyReq[s].options]]
       ELSE proxyReq' = [proxyReq EXCEPT ![s].destroyed = TRUE,
                                         ![s].errored = TRUE]
    /\ UNCHANGED <<written, res, clientSocket>>
    /\ UNCHANGED <<gates, outcome, clientIP, tunnel>>

\* proxyReq.on('error'): an I/O error of the upstream leg, or the 'socket
\* hang up' error that follows proxyReq.destroy() when no response had come.
ProxyError(s) ==
    /\ Relay(s)
    /\ ~proxyReq[s].errored
    /\ ~proxyReq[s].destroyed \/ ~proxyReq[s].responded
    /\ ~(proxyReq[s].responded /\ res[s].finished)
    /\ proxyReq' = [proxyReq EXCEPT ![s].destroyed = TRUE, ![s].errored = TRUE]
    /\ IF ~res[s].headersSent
       THEN /\ written' = [written EXCEPT
                             ![s] = Write(@, "client", clientSocket[s],
                                          Http(502, TextPlain, "Proxy error: "))]
            /\ res' = [res EXCEPT ![s].headersSent = TRUE, ![s].finished = TRUE]
            /\ clientSocket' = [clientSocket EXCEPT ![s] = EndResponse(@, res[s])]
       ELSE UNCHANGED <<written, res, clientSocket>>
    /\ UNCHANGED <<gates, outcome, clientIP, tunnel>>

\* The timeout callback answering 504 without looking at res.headersSent.
ProxyTimeout_AlwaysAnswer(s) ==
    /\ Relay(s)
    /\ ~proxyReq[s].destroyed
    /\ proxyReq[s].timeout > 0
    /\ ~(proxyReq[s].responded /\ res[s].finished)
    /\ proxyReq' = [proxyReq EXCEPT ![s].destroyed = TRUE, ![s].timedOut = TRUE]
    /\ written' = [written EXCEPT
                     ![s] = Write(@, "client", clientSocket[s],
                                  Http(504, TextPlain, "Gateway Timeout"))]
    /\ res' = [res EXCEPT ![s].headersSent = TRUE, ![s].finished = TRUE]
    /\ clientSocket' = [clientSocket EXCEPT ![s] = EndResponse(@, res[s])]
    /\ UNCHANGED <<gates, outcome, clientIP, tunnel>>

\* The callback of proxyReq.setTimeout: the upstream socket was idle for
\* PROXY_TIMEOUT_MS, before or after the response started.
ProxyTimeout(s) ==
    /\ Relay(s)
    /\ ~proxyReq[s].destroyed
    /\ proxyReq[s].timeout > 0
    /\ ~(proxyReq[s].responded /\ res[s].finished)
    /\ proxyReq' = [proxyReq EXCEPT ![s].destroyed = TRUE, ![s].timedOut = TRUE]
    /\ IF ~res[s].headersSent
       THEN /\ written' = [written EXCEPT
                             ![s] = Write(@, "client", clientSocket[s],
                                          Http(504, TextPlain, "Gateway Timeout"))]
            /\ res' = [res EXCEPT ![s].headersSent = TRUE, ![s].finished = TRUE]
            /\ clientSocket' = [clientSocket EXCEPT ![s] = EndResponse(@, res[s])]
       ELSE UNCHANGED <<written, res, clientSocket>>
    /\ UNCHANGED <<gates, outcome, clientIP, tunnel>>

(***************************************************************************)
(* The connection is over: the slot can take the next connection.          *)
(***************************************************************************)
Over(s) ==
    /\ outcome[s] # "free"
    /\ clientSocket[s].closed
    /\ targetSocket[s].created => targetSocket[s].closed
    /\ proxyReq[s].created =>
           proxyReq[s].destroyed \/ (proxyReq[s].responded /\ res[s].finished)

SocketClosed(s) ==
    /\ Over(s)
    /\ outcome[s] # "crash"
    /\ requestsSent < MaxRequests
    /\ outcome' = [outcome EXCEPT ![s] = "free"]
    /\ clientIP' = [clientIP EXCEPT ![s] = <<>>]
    /\ target' = [target EXCEPT ![s] = NoTarget]
    /\ head' = [head EXCEPT ![s] = <<>>]
    /\ clientSocket' = [clientSocket EXCEPT ![s] = NoSocket]
    /\ targetSocket' = [targetSocket EXCEPT ![s] = NoSocket]
    /\ res' = [res EXCEPT ![s] = NoRes]
    /\ proxyReq' = [proxyReq EXCEPT ![s] = NoProxyReq]
    /\ written' = [written EXCEPT ![s] = <<>>]
    /\ UNCHANGED gates

(***************************************************************************)
(* Specification: up to NSess connections at a time.                       *)
(***************************************************************************)
Open == {s \in Sess : outcome[s] # "free"}

Connect(s) ==
    /\ Cardinality(Open) < MaxOpen
    /\ \E r \in Requests : OnConnect(s, r)
    /\ UNCHANGED <<probe, now, entry>>

Request(s) ==
    /\ Cardinality(Open) < MaxOpen
    /\ \E r \in Requests : OnRequest(s, r)
    /\ UNCHANGED <<probe, now, entry>>

Next ==
    \E s \in Sess :
        \/ Connect(s)
        \/ Request(s)
        \/ TargetConnect(s)
        \/ ClientData(s)
        \/ UpstreamData(s)
        \/ TargetError(s)
        \/ TargetTimeout(s)
        \/ UpstreamEnd(s)
        \/ TargetClose(s)
        \/ ClientDisconnect(s)
        \/ ClientError(s)
        \/ ClientClose(s)
        \/ ProxyResponse(s)
        \/ ProxyResponseEnd(s)
        \/ ProxyError(s)
        \/ ProxyTimeout(s)
        \/ SocketClosed(s)

Spec == Init /\ [][Next]_vars


(***************************************************************************)
(* Gate specification: one request, drawn with the configuration from the  *)
(* full input sets, goes through its handler; the request stays visible in *)
(* probe.                                                                  *)
(***************************************************************************)
InitGate ==
    /\ LOG_LEVEL = LogLevelOf(undefined)
    /\ PROXY_TIMEOUT_MS = TimeoutOf(undefined)
    /\ ALLOWED_IPS \in {{}, {AddrA}, {MappedA}}
    /\ \/ PROXY_AUTH_USERNAME = undefined /\ PROXY_AUTH_PASSWORD = undefined
       \/ PROXY_AUTH_USERNAME = User /\ PROXY_AUTH_PASSWORD = undefined
       \/ PROXY_AUTH_USERNAME = User /\ PROXY_AUTH_PASSWORD = Pass
       \/ PROXY_AUTH_USERNAME = undefined /\ PROXY_AUTH_PASSWORD = Pass
    /\ probe \in GateRequests
    /\ Idle

GateConnect == OnConnect(1, probe) /\ UNCHANGED <<probe, now, entry>>
GateRequest == OnRequest(1, probe) /\ UNCHANGED <<probe, now, entry>>

NextGate == GateConnect \/ GateRequest

SpecGate == InitGate /\ [][NextGate]_vars

(***************************************************************************)
(* Relay specification: one request, drawn from the full set of methods,   *)
(* target URLs and headers, goes through server.on('request') and the HTTP *)
(* relay; the request stays visible in probe.                              *)
(***************************************************************************)
Ports == {"80", "443", "8080", "0"}
Authorities == {<<"example.com">>}
                   \cup {<<"example.com", ":", p>> : p \in Ports}
RelayUrls == {<<scheme>> \o authority \o rest :
                  scheme \in {"http://", "https://"},
                  authority \in Authorities,
                  rest \in {<<>>, <<"/a">>, <<"/a", "?q">>}}
RelayHeaders == SUBSET {ClientHost, <<"accept", <<"*/*">>>>,
                        <<"proxy-connection", <<"keep-alive">>>>,
                        <<"connection", <<"close">>>>}
RelayRequests ==
    [method : {"GET", "POST"}, url : RelayUrls, remoteAddress : {AddrA},
     authHeader : {undefined, Basic(User \o <<":">> \o Pass)}, head : {<<>>},
     keepAlive : BOOLEAN, headers : RelayHeaders]

InitRelay ==
    /\ LOG_LEVEL = LogLevelOf(undefined)
    /\ PROXY_TIMEOUT_MS = TimeoutOf(undefined)
    /\ ALLOWED_IPS = {}
    /\ \/ PROXY_AUTH_USERNAME = undefined /\ PROXY_AUTH_PASSWORD = undefined
       \/ PROXY_AUTH_USERNAME = User /\ PROXY_AUTH_PASSWORD = Pass
    /\ probe \in RelayRequests
    /\ Idle

RelayRequest == OnRequest(1, probe) /\ UNCHANGED <<probe, now, entry>>

NextRelay ==
    \/ RelayRequest
    \/ ProxyResponse(1)
    \/ ProxyResponseEnd(1)
    \/ ProxyError(1)
    \/ ProxyTimeout(1)
    \/ ClientDisconnect(1)
    \/ ClientClose(1)

SpecRelay == InitRelay /\ [][NextRelay]_vars

(***************************************************************************)
(* Specification: one relayed request with the timer of proxyReq.setTimeout *)
(* and the 'close' event fair: an upstream request that stays idle does     *)
(* time out, a destroyed client socket does emit 'close'.                   *)
(***************************************************************************)
FairRequests ==
    {r \in RelayRequests : /\ r.method = "GET"
                           /\ r.authHeader = undefined
                           /\ r.headers = {ClientHost}}

InitRelayFair ==
    /\ LOG_LEVEL = LogLevelOf(undefined)
    /\ PROXY_TIMEOUT_MS = TimeoutOf(undefined)
    /\ ALLOWED_IPS = {}
    /\ PROXY_AUTH_USERNAME = undefined /\ PROXY_AUTH_PASSWORD = undefined
    /\ probe \in FairRequests
    /\ Idle

SpecRelayFair ==
    /\ InitRelayFair /\ [][NextRelay]_vars
    /\ WF_vars(ProxyTimeout(1))
    /\ WF_vars(ClientClose(1))


(***************************************************************************)
(* Tunnel specification: one CONNECT session from the request to the end   *)
(* of both sockets.  Node emits 'close' after every destroy, and the idle  *)
(* timer of the upstream socket fires once no data flows.                  *)
(***************************************************************************)
TunnelRequests ==
    RequestsOver({AddrA}, {undefined}, {<<"example.com", ":", "443">>}, Heads)

InitTunnel ==
    /\ LOG_LEVEL = LogLevelOf(undefined)
    /\ PROXY_TIMEOUT_MS = TimeoutOf(undefined)
    /\ ALLOWED_IPS = {}
    /\ PROXY_AUTH_USERNAME = undefined /\ PROXY_AUTH_PASSWORD = undefined
    /\ probe = NoReq
    /\ Idle

TunnelConnect ==
    /\ \E r \in TunnelRequests : OnConnect(1, r)
    /\ UNCHANGED <<probe, now, entry>>

NextTunnel ==
    \/ TunnelConnect
    \/ TargetConnect(1)
    \/ ClientData(1)
    \/ UpstreamData(1)
    \/ TargetError(1)
    \/ TargetTimeout(1)
    \/ UpstreamEnd(1)
    \/ TargetClose(1)
    \/ ClientEnd(1)
    \/ ClientDisconnect(1)
    \/ ClientError(1)
    \/ ClientClose(1)

SpecTunnel ==
    /\ InitTunnel
    /\ [][NextTunnel]_vars
    /\ WF_vars(TargetClose(1))
    /\ WF_vars(ClientClose(1))
    /\ WF_vars(TargetTimeout(1))


(***************************************************************************)
(* Clock specification: CONNECT requests arrive one after the other while  *)
(* the clock advances; entry follows what the ledger of the specification  *)
(* would record for them.                                                  *)
(***************************************************************************)
ClockRequests ==
    RequestsOver({AddrA, AddrB},
                 {Basic(User \o <<":">> \o Pass), Basic(User \o <<":">> \o <<"x">>)},
                 {<<"example.com", ":", "443">>}, {<<>>})

InitClock ==
    /\ LOG_LEVEL = LogLevelOf(undefined)
    /\ PROXY_TIMEOUT_MS = TimeoutOf(undefined)
    /\ ALLOWED_IPS = {}
    /\ PROXY_AUTH_USERNAME = User /\ PROXY_AUTH_PASSWORD = Pass
    /\ probe = NoReq
    /\ Idle

\* The entry of the address after a request with the given credentials.
Recorded(e, t, header) ==
    IF ~Admit(e, t) THEN e
    ELSE IF checkAuth(header) THEN NoEntry
    ELSE RecordFailure(e, t)

ClockConnect ==
    \E r \in ClockRequests :
        /\ OnConnect(1, r)
        /\ probe' = r
        /\ entry' = [entry EXCEPT
                       ![StripMapped(r.remoteAddress)] =
                           Recorded(@, now, r.authHeader)]
        /\ UNCHANGED now

Tick ==
    /\ outcome[1] = "free"
    /\ now < MaxTime
    /\ now' = now + 1
    /\ UNCHANGED <<config, probe, session, failedChecks, ledger, requestsSent,
                   entry, server, console>>

NextClock ==
    \/ ClockConnect
    \/ Tick
    \/ TargetConnect(1)
    \/ ClientDisconnect(1)
    \/ ClientClose(1)
    \/ TargetClose(1)
    \/ SocketClosed(1)

SpecClock == InitClock /\ [][NextClock]_vars

(***************************************************************************)
(* Specification: one request of any target through its handler, under     *)
(* every configuration of the gates.                                       *)
(***************************************************************************)
ClassifyConnectUrls ==
    {<<":", "443">>, <<"example.com">>, <<"example.com", ":", "443">>,
     <<"example.com", ":", "0">>, <<"example.com", ":", "abc">>,
     <<"example.com", ":", "99999">>, <<"example.com", ":", "8080">>,
     <<"[", ":", ":", "1]", ":", "443">>}
ClassifyHttpUrls ==
    {<<>>, <<"/">>, <<"/health">>, <<"http://", "example.com", "/a">>,
     <<"http://", "/a">>, <<"http://", "example.com", ":", "99999", "/a">>}
ClassifyAddrs == {AddrA, MappedA, AddrB, undefined}
ClassifyHeaders == {undefined, Basic(User \o <<":">> \o Pass),
                    Basic(User \o <<":">> \o <<"x">>)}
ClassifyRequests ==
    [method : {"CONNECT"}, url : ClassifyConnectUrls,
     remoteAddress : ClassifyAddrs, authHeader : ClassifyHeaders,
     head : {<<>>}, keepAlive : {FALSE}, headers : {PlainHeaders}]
    \cup
    [method : {"GET"}, url : ClassifyHttpUrls,
     remoteAddress : ClassifyAddrs, authHeader : ClassifyHeaders,
     head : {<<>>}, keepAlive : BOOLEAN, headers : {PlainHeaders}]

InitClassify ==
    /\ LOG_LEVEL = LogLevelOf(undefined)
    /\ PROXY_TIMEOUT_MS \in {TimeoutOf(env) : env \in TimeoutEnvs}
    /\ ALLOWED_IPS \in {{}, {AddrA}, {MappedA}}
    /\ PROXY_AUTH_USERNAME \in {undefined, <<>>, User}
    /\ PROXY_AUTH_PASSWORD \in {undefined, <<>>, Pass}
    /\ probe \in ClassifyRequests
    /\ Idle

ClassifyConnect == OnConnect(1, probe) /\ UNCHANGED <<probe, now, entry>>
ClassifyRequest == OnRequest(1, probe) /\ UNCHANGED <<probe, now, entry>>

NextClassify == ClassifyConnect \/ ClassifyRequest

SpecClassify == InitClassify /\ [][NextClassify]_vars

(***************************************************************************)
(* Specification: connections on all the slots at the same time, the gates *)
(* open, the events of the sessions interleaved in every order.            *)
(***************************************************************************)
PairRequests ==
    [method : {"CONNECT"},
     url : {<<"example.com", ":", "443">>, <<"example.com", ":", "99999">>},
     remoteAddress : {AddrA}, authHeader : {undefined},
     head : {<<>>}, keepAlive : {FALSE}, headers : {PlainHeaders}]
    \cup
    [method : {"GET"}, url : {<<"http://", "example.com", "/a">>},
     remoteAddress : {AddrA}, authHeader : {undefined},
     head : {<<>>}, keepAlive : {FALSE}, headers : {PlainHeaders}]

InitPair ==
    /\ LOG_LEVEL = LogLevelOf(undefined)
    /\ PROXY_TIMEOUT_MS = TimeoutOf(undefined)
    /\ ALLOWED_IPS = {}
    /\ PROXY_AUTH_USERNAME = undefined /\ PROXY_AUTH_PASSWORD = undefined
    /\ probe = NoReq
    /\ Idle

PairConnect(s) ==
    /\ \E r \in PairRequests : OnConnect(s, r)
    /\ UNCHANGED <<probe, now, entry>>

PairRequest(s) ==
    /\ \E r \in PairRequests : OnRequest(s, r)
    /\ UNCHANGED <<probe, now, entry>>

NextPair ==
    \E s \in Sess :
        \/ PairConnect(s)
        \/ PairRequest(s)
        \/ TargetConnect(s)
        \/ TargetError(s)
        \/ TargetTimeout(s)
        \/ TargetClose(s)
        \/ ClientDisconnect(s)
        \/ ClientClose(s)
        \/ ProxyResponse(s)
        \/ ProxyResponseEnd(s)
        \/ ProxyError(s)
        \/ ProxyTimeout(s)

SpecPair == InitPair /\ [][NextPair]_vars

(***************************************************************************)
(* Specification: calls of log under every configured verbosity.           *)
(***************************************************************************)
LogLevelEnvs == {undefined, <<>>, <<"error">>, <<"info">>, <<"debug">>,
                 <<"ERROR">>, <<"Info">>, <<"DEBUG">>, <<"warn">>,
                 <<"verbose">>, <<"constructor">>, <<"__proto__">>}
MessageLevels == {<<"error">>, <<"info">>, <<"debug">>}

InitLog ==
    /\ LOG_LEVEL \in {LogLevelOf(env) : env \in LogLevelEnvs}
    /\ PROXY_TIMEOUT_MS = TimeoutOf(undefined)
    /\ ALLOWED_IPS = {}
    /\ PROXY_AUTH_USERNAME = undefined /\ PROXY_AUTH_PASSWORD = undefined
    /\ probe = NoReq
    /\ Idle

Log ==
    /\ Len(console) < MaxLog
    /\ \E level \in MessageLevels :
         console' = Append(console, [level |-> level, printed |-> logPrints(level)])
    /\ UNCHANGED <<config, probe, session, failedChecks, ledger, requestsSent,
                   now, entry, server>>

NextLog == Log

SpecLog == InitLog /\ [][NextLog]_vars

(***************************************************************************)
(* Graceful shutdown: process.on('SIGTERM') and process.on('SIGINT').      *)
(***************************************************************************)
\* The connections of the server: a client socket counts until its 'close'.
Connections == {s \in Sess : clientSocket[s].created /\ ~clientSocket[s].closed}

\* The handler calling process.exit(0) itself, without waiting for the close
\* of the server.
Signal_ExitNow ==
    /\ server = "listening"
    /\ server' = "exited"
    /\ clientSocket' = [t \in Sess |-> Exit(clientSocket[t])]
    /\ targetSocket' = [t \in Sess |-> Exit(targetSocket[t])]
    /\ proxyReq' = [t \in Sess |->
                      IF proxyReq[t].created
                      THEN [proxyReq[t] EXCEPT !.destroyed = TRUE]
                      ELSE proxyReq[t]]
    /\ UNCHANGED <<config, probe, failedChecks, ledger, requestsSent, now, entry,
                   console>>
    /\ UNCHANGED <<closure, res, written>>

\* SIGTERM or SIGINT: server.close(callback).  The server stops listening;
\* its connections stay as they are.
Signal ==
    /\ server = "listening"
    /\ server' = "closing"
    /\ UNCHANGED <<config, probe, failedChecks, ledger, requestsSent, now, entry,
                   console>>
    /\ UNCHANGED session

\* The callback of server.close: the 'close' event of the server, emitted
\* when its last connection has closed; process.exit(0) ends what is left
\* of the upstream side.
ServerClosed ==
    /\ server = "closing"
    /\ Connections = {}
    /\ server' = "exited"
    /\ targetSocket' = [t \in Sess |-> Exit(targetSocket[t])]
    /\ proxyReq' = [t \in Sess |->
                      IF proxyReq[t].created
                      THEN [proxyReq[t] EXCEPT !.destroyed = TRUE]
                      ELSE proxyReq[t]]
    /\ UNCHANGED <<config, probe, failedChecks, ledger, requestsSent, now, entry,
                   console>>
    /\ UNCHANGED <<closure, clientSocket, res, written>>

ShutdownRequests ==
    {r \in PairRequests : r.url # <<"example.com", ":", "99999">>}

ShutdownConnect(s) ==
    /\ \E r \in ShutdownRequests : OnConnect(s, r)
    /\ UNCHANGED <<probe, now, entry>>

ShutdownRequest(s) ==
    /\ \E r \in ShutdownRequests : OnRequest(s, r)
    /\ UNCHANGED <<probe, now, entry>>

NextShutdown ==
    \/ Signal
    \/ ServerClosed
    \/ \E s \in Sess :
          \/ ShutdownConnect(s)
          \/ ShutdownRequest(s)
          \/ TargetConnect(s)
          \/ TargetError(s)
          \/ TargetClose(s)
          \/ ClientDisconnect(s)
          \/ ClientClose(s)
          \/ ProxyResponse(s)
          \/ ProxyResponseEnd(s)
          \/ ProxyError(s)

SpecShutdown == InitPair /\ [][NextShutdown]_vars


(***************************************************************************)
(* Properties.                                                             *)
(***************************************************************************)
Established(s) == Tunnel(s) /\ targetSocket[s].connected

\* The handler of a request ran in slot s in this step.
Handled(s) == outcome[s] = "free" /\ outcome'[s] # "free"

\* C1: in a CONNECT session whose upstream connect succeeded, the first write
\* of the proxy is the line 'HTTP/1.1 200 Connection Established' to the
\* client, it is the first thing the client receives, and every tunnelled
\* byte (the buffered head included) is forwarded after that write.
C1_EstablishedFirst ==
    \A s \in Sess :
        /\ Established(s) =>
              /\ written[s] # <<>>
              /\ written[s][1].to = "client"
              /\ written[s][1].data = Established200
              /\ Delivered(written[s], "client") # <<>> =>
                     Head(Delivered(written[s], "client")) = Established200
        /\ \A i \in DOMAIN written[s] :
              (Tunnel(s) /\ written[s][i].data.kind = "data") =>
                  /\ i > 1
                  /\ written[s][1].to = "client"
                  /\ written[s][1].data = Established200

C1_Witness ==
    \E s \in Sess :
        /\ Established(s)
        /\ head[s] # <<>>
        /\ Len(Delivered(written[s], "target")) >= 2
        /\ Len(Delivered(written[s], "client")) >= 2

\* C2: in an established tunnel the upstream receives the head and then the
\* client's bytes in the order sent, and after the 200 line the client
\* receives the upstream's bytes in the order sent, nothing else.
C2_OrderPreserving ==
    \A s \in Sess :
        Tunnel(s) =>
            LET up == Delivered(written[s], "target")
                down == Delivered(written[s], "client")
            IN  /\ \A i \in DOMAIN up : up[i] = Data("client", i)
                /\ Established(s) =>
                       \A i \in 2..Len(down) : down[i] = Data("upstream", i - 1)

\* C3: once the 200 line is written, the proxy writes no 502 or 504 line to
\* the client.
C3_NoStatusInTunnel ==
    \A s \in Sess :
        \A i \in DOMAIN written[s] :
            (Established(s) /\ i > 1 /\ written[s][i].to = "client") =>
                written[s][i].data \notin {BadGateway502, GatewayTimeout504}

\* C4: with a non-empty allowlist, a request from an address that is not in
\* the list (neither as sent nor with the ::ffff: prefix stripped) is
\* rejected, and no upstream socket or upstream request exists for it.
C4_AllowlistBeforeUpstream ==
    \A s \in Sess :
        ( /\ outcome[s] # "free"
          /\ ALLOWED_IPS # {}
          /\ clientIP[s] \notin ALLOWED_IPS
          /\ StripMapped(clientIP[s]) \notin ALLOWED_IPS )
        => /\ outcome[s] \in {"400", "403"}
           /\ ~targetSocket[s].created
           /\ ~proxyReq[s].created

C4_Witness ==
    \E s \in Sess :
        /\ outcome[s] = "403"
        /\ ALLOWED_IPS = {AddrA}
        /\ clientIP[s] = AddrB
        /\ clientSocket[s].closed


(***************************************************************************)
(* The credential gate, on the request in probe (SpecGate).                *)
(***************************************************************************)
AuthEnforced == ~Falsy(PROXY_AUTH_USERNAME) /\ ~Falsy(PROXY_AUTH_PASSWORD)

\* The handler of the probe reached the credential check.
GateReached == outcome[1] \in {"407", "tunnel", "relay", "info"}

\* C5: with a credential pair configured, the credential gate admits the
\* request if and only if its Proxy-Authorization header is 'Basic ' followed
\* by base64 text that decodes to exactly '<username>:<password>'; every
\* other decoded string is refused.
C5_ExactCredentials ==
    (GateReached /\ AuthEnforced) =>
        ( outcome[1] # "407"
          <=> /\ ~Falsy(probe.authHeader)
              /\ Head(probe.authHeader) = "Basic "
              /\ Base64Decode(Tail(probe.authHeader))
                     = PROXY_AUTH_USERNAME \o <<":">> \o PROXY_AUTH_PASSWORD )

\* The kinds of credential failure.  Names and words are strings without ':'.
Words == UNION {[1..k -> {"u", "p"}] : k \in 0..3}
MissingHeader(h) == Falsy(h)
WrongScheme(h) == ~Falsy(h) /\ Head(h) # "Basic "
Undecodable(h) ==
    /\ ~Falsy(h)
    /\ Head(h) = "Basic "
    /\ Len(h) > 1
    /\ \A i \in 2..Len(h) : h[i] \notin Base64Symbols
WrongUsername(h) ==
    \E name \in Words :
        /\ name # PROXY_AUTH_USERNAME
        /\ h = Basic(name \o <<":">> \o PROXY_AUTH_PASSWORD)
WrongPassword(h) ==
    \E word \in Words :
        /\ word # PROXY_AUTH_PASSWORD
        /\ h = Basic(PROXY_AUTH_USERNAME \o <<":">> \o word)
CredentialFailure(h) ==
    \/ MissingHeader(h)
    \/ WrongScheme(h)
    \/ Undecodable(h)
    \/ WrongUsername(h)
    \/ WrongPassword(h)
    \/ ~checkAuth(h)

\* C6: every kind of credential failure (missing header, wrong scheme tag,
\* undecodable value, wrong username, wrong password, or any other header the
\* gate refuses) gets the same answer: the one write of the 407 response with
\* the challenge Proxy-Authenticate: Basic realm="...", whatever the kind.
C6_UniformFailure ==
    (GateReached /\ AuthEnforced /\ CredentialFailure(probe.authHeader)) =>
        /\ outcome[1] = "407"
        /\ Len(written[1]) = 1
        /\ written[1][1].to = "client"
        /\ written[1][1].data =
               IF probe.method = "CONNECT"
               THEN AuthRequired407
               ELSE Http(407, Challenge, "Proxy authentication required")

C6_Witness ==
    /\ GateReached /\ AuthEnforced
    /\ WrongScheme(probe.authHeader)
    /\ Tail(probe.authHeader)
           = Base64Encode(PROXY_AUTH_USERNAME \o <<":">> \o PROXY_AUTH_PASSWORD)
    /\ probe.method = "GET"
    /\ outcome[1] = "407"

(***************************************************************************)
(* Gate order, rejections and the brute-force lockout (Spec).  The         *)
(* behaviours are short: every request falls inside the window and the     *)
(* lockout period of the failures before it.                               *)
(***************************************************************************)
Listed(ip) ==
    ALLOWED_IPS = {} \/ ip \in ALLOWED_IPS \/ StripMapped(ip) \in ALLOWED_IPS

LockedOut(ip) == failedChecks[StripMapped(ip)] >= Threshold

\* C7: the gates run in the order allowlist, lockout, credentials and stop at
\* the first failure: a client outside the allowlist is answered 403 whatever
\* its credentials, and the credentials are evaluated only for a client that
\* passed the allowlist and is not locked out.
C7_GateOrder ==
    [][\A s \in Sess :
         Handled(s) =>
            /\ (~Listed(clientIP'[s]) /\ outcome'[s] # "400") =>
                   outcome'[s] = "403"
            /\ outcome'[s] \in {"407", "tunnel", "relay", "info"} =>
                   (Listed(clientIP'[s]) /\ ~LockedOut(clientIP'[s]))]_vars

\* C8: a request rejected with 403, 407 or 429 gets its status written, its
\* client connection is closed by the proxy, and no upstream socket or
\* upstream request exists for it.
C8_RejectedIsClosed ==
    \A s \in Sess :
        outcome[s] \in {"403", "407", "429"} =>
            /\ written[s] # <<>>
            /\ clientSocket[s].writableEnded \/ clientSocket[s].destroyed
            /\ ~targetSocket[s].created
            /\ ~proxyReq[s].created

\* C9: after Threshold consecutive failed credential checks from an address,
\* every further request from that address that gets past the allowlist is
\* answered 429, also when its credentials are right.
C9_LockoutAfterThreshold ==
    [][\A s \in Sess :
         ( /\ Handled(s)
           /\ LockedOut(clientIP'[s])
           /\ outcome'[s] \notin {"400", "403"} )
         => outcome'[s] = "429"]_vars

\* C10: a successful credential check removes the entry of the address, and
\* the first failure after it (or the first ever) makes an entry of count 1.
C10_ClearedOnSuccess ==
    [][\A s \in Sess :
         Handled(s) =>
            LET a == StripMapped(clientIP'[s])
            IN  /\ outcome'[s] \in {"tunnel", "relay", "info"} => ledger'[a] = 0
                /\ (outcome'[s] = "407" /\ failedChecks[a] = 0) =>
                       ledger'[a] = 1]_vars

\* C11: each failed credential check (the handler answers 407) increases the
\* failure count the process keeps for the client's address by exactly one,
\* and leaves the counts of the other addresses as they are, whatever other
\* connections are open.
C11_FailureCounted ==
    [][\A s \in Sess :
         (Handled(s) /\ outcome'[s] = "407") =>
            LET a == StripMapped(clientIP'[s])
            IN  /\ ledger'[a] = ledger[a] + 1
                /\ \A b \in ClientIPs \ {a} : ledger'[b] = ledger[b]]_vars


\* C13: a lockout ends by itself and does not end with its window: a request
\* that arrives after the window of the failures has expired but before the
\* lockout has is answered 429, and a request that arrives once the lockout
\* has expired is judged on its credentials (admitted or 407), no sweep
\* having run in between.
C13_LockoutExpires ==
    [][Handled(1) =>
         LET e == entry[StripMapped(clientIP'[1])]
         IN  /\ (e.lockoutUntil > now /\ e.windowReset <= now) =>
                    outcome'[1] = "429"
             /\ (e.lockoutUntil > 0 /\ e.lockoutUntil <= now) =>
                    outcome'[1] = IF checkAuth(probe'.authHeader)
                                  THEN "tunnel" ELSE "407"]_vars


(***************************************************************************)
(* The HTTP relay, on the request in probe (SpecRelay).                    *)
(***************************************************************************)
\* The upstream answered and its response ended, without error or timeout.
CompletedNormally(s) ==
    /\ Relay(s)
    /\ proxyReq[s].responded /\ res[s].finished
    /\ ~proxyReq[s].timedOut /\ ~proxyReq[s].errored

Names(headers) == {h[1] : h \in headers}
Except(headers, names) == {h \in headers : h[1] \notin names}
ProxyOnly == {"proxy-authorization", "proxy-connection", "connection"}

\* The authority of an absolute URL: the tokens between scheme and path.
Authority(url) ==
    IF Len(url) >= 4 /\ url[3] = ":" THEN SubSeq(url, 2, 4) ELSE SubSeq(url, 2, 2)

\* C15: the outbound request of the HTTP relay carries no proxy-authorization,
\* proxy-connection or connection header; it has the method of the client's
\* request and every other header of the client unchanged; its one host
\* header is the authority of the target URL, not the client's Host header.
C15_OutboundHeaders ==
    Relay(1) =>
        LET sent == proxyReq[1].options.headers
            received == ReqHeaders(probe)
        IN  /\ Names(sent) \cap ProxyOnly = {}
            /\ proxyReq[1].options.method = probe.method
            /\ Except(sent, {"host"}) = Except(received, ProxyOnly \cup {"host"})
            /\ \A h \in sent : h[1] = "host" => h[2] = Authority(probe.url)

C15_Witness ==
    /\ Relay(1)
    /\ probe.method = "POST"
    /\ Names(ReqHeaders(probe)) =
           ProxyOnly \cup {"host", "accept"}
    /\ ClientHost \notin proxyReq[1].options.headers
    /\ <<"host", <<"example.com", ":", "8080">>>> \in proxyReq[1].options.headers


\* The number an explicit port of the target URL denotes.
PortNumber == [p \in Ports |->
                 CASE p = "80" -> 80 [] p = "443" -> 443
                   [] p = "8080" -> 8080 [] p = "0" -> 0]

\* C16: the upstream port of the HTTP relay is the explicit port of the target
\* URL if it has one, else 443 for scheme https, else 80; the connection uses
\* TLS if and only if the scheme is https or that port is 443.
C16_PortAndTransport ==
    Relay(1) =>
        LET url == probe.url
            resolved == IF Len(url) >= 4 /\ url[3] = ":" THEN PortNumber[url[4]]
                        ELSE IF url[1] = "https://" THEN 443 ELSE 80
        IN  /\ proxyReq[1].options.port = resolved
            /\ proxyReq[1].options.isHttps
                   <=> (url[1] = "https://" \/ resolved = 443)


\* C17: when the request timeout of an HTTP relay fires, the upstream request
\* is aborted; if no headers had been sent the one write to the client is the
\* 504 response, which is ended; if headers had been sent nothing is written
\* and the client response is closed; and nothing is written to the client
\* after the timeout has fired.
C17_TimeoutAnswer ==
    [][/\ (proxyReq'[1].timedOut /\ ~proxyReq[1].timedOut) =>
              /\ proxyReq'[1].destroyed
              /\ res'[1].finished
              /\ IF ~res[1].headersSent
                 THEN /\ Len(written'[1]) = 1
                      /\ written'[1][1].to = "client"
                      /\ written'[1][1].data.status = 504
                 ELSE written'[1] = written[1]
       /\ (proxyReq[1].timedOut /\ proxyReq'[1].timedOut) =>
              written'[1] = written[1]]_vars

\* C18: when the upstream leg of an HTTP relay fails with an I/O error, the
\* client gets a 502 response with an error summary if no headers had been
\* sent, and otherwise nothing more is written; in both cases the client
\* response is closed.
C18_UpstreamError ==
    [][(proxyReq'[1].errored /\ ~proxyReq[1].errored) =>
           /\ res'[1].finished
           /\ IF ~res[1].headersSent
              THEN /\ Len(written'[1]) = 1
                   /\ written'[1][1].to = "client"
                   /\ written'[1][1].data.status = 502
                   /\ written'[1][1].data.text # ""
              ELSE written'[1] = written[1]]_vars

\* C19: once the client of an HTTP relay is gone (its socket is closed), the
\* upstream request does not go on: no upstream response is received or
\* brought to its end after that.
C19_AbortOnDisconnect ==
    [][(Relay(1) /\ clientSocket[1].closed) =>
           /\ proxyReq'[1].responded = proxyReq[1].responded
           /\ res'[1].finished = res[1].finished]_vars


\* The upstream connect of the CONNECT session in slot s fails in this step.
ConnectFails(s) ==
    /\ Tunnel(s)
    /\ ~targetSocket[s].connected /\ ~targetSocket[s].destroyed
    /\ targetSocket'[s].destroyed /\ targetSocket'[s].closed

\* C20: when the upstream connect of a CONNECT session fails, the proxy writes
\* the line 'HTTP/1.1 502 Bad Gateway' and nothing after it to the client if
\* the client socket is still writable (nothing otherwise), the client
\* connection is closed, and no 200 line is written for the session.
C20_ConnectFailure ==
    [][\A s \in Sess :
         ConnectFails(s) =>
            /\ IF Writable(clientSocket[s])
               THEN written'[s] = <<[to |-> "client", data |-> BadGateway502,
                                     ok |-> TRUE]>>
               ELSE written'[s] = written[s]
            /\ clientSocket'[s].destroyed
            /\ \A i \in DOMAIN written'[s] :
                   written'[s][i].data # Established200]_vars

C20_Witness ==
    \E s \in Sess :
        /\ Tunnel(s)
        /\ ~targetSocket[s].connected /\ targetSocket[s].closed
        /\ written[s] = <<[to |-> "client", data |-> BadGateway502, ok |-> TRUE]>>
        /\ clientSocket[s].writableEnded /\ clientSocket[s].destroyed


(***************************************************************************)
(* The end of a CONNECT session (SpecTunnel).                              *)
(***************************************************************************)
BothClosed(s) == clientSocket[s].closed /\ targetSocket[s].closed

\* The 'timeout' handler of an upstream socket that has not connected runs
\* in this step: the socket is destroyed, not by an error and not by the
\* client's 'close' or 'error'.
ConnectTimesOut(s) ==
    /\ Tunnel(s)
    /\ ~targetSocket[s].connected /\ ~targetSocket[s].destroyed
    /\ targetSocket'[s].destroyed /\ ~targetSocket'[s].closed
    /\ clientSocket'[s].closed = clientSocket[s].closed

TimeoutReported(s) ==
    /\ Tunnel(s)
    /\ ~targetSocket[s].connected
    /\ written[s] = <<[to |-> "client", data |-> GatewayTimeout504, ok |-> TRUE]>>

\* C21: when the upstream connect of a CONNECT session times out, the proxy
\* writes the line 'HTTP/1.1 504 Gateway Timeout' (and nothing else) to the
\* client whose socket is writable and ends it, and after that the client
\* socket and the upstream socket both get closed.
C21_ConnectTimeout ==
    /\ [][(ConnectTimesOut(1) /\ Writable(clientSocket[1])) =>
              /\ written'[1] = <<[to |-> "client", data |-> GatewayTimeout504,
                                  ok |-> TRUE]>>
              /\ clientSocket'[1].writableEnded]_vars
    /\ (TimeoutReported(1) ~> BothClosed(1))

C21_Witness ==
    /\ TimeoutReported(1)
    /\ BothClosed(1)
    /\ clientSocket[1].writableEnded


\* One socket of the session in slot s closed, half-closed or failed after
\* the upstream socket was created.
OneSideDown(s) ==
    /\ Tunnel(s)
    /\ \/ clientSocket[s].destroyed
       \/ clientSocket[s].readableEnded
       \/ targetSocket[s].destroyed

SameSession(s) == outcome[s] # "free" /\ outcome'[s] = outcome[s]

\* C23: within a session the upstream socket and the upstream request are
\* opened at most once, when the request is dispatched: one that is destroyed
\* stays destroyed, one that failed is destroyed and stays failed, its target
\* stays the same, and none is opened later.
C23_NoRetry ==
    [][\A s \in Sess :
         SameSession(s) =>
            /\ targetSocket'[s].created = targetSocket[s].created
            /\ targetSocket[s].destroyed => targetSocket'[s].destroyed
            /\ target'[s] = target[s]
            /\ proxyReq'[s].created = proxyReq[s].created
            /\ proxyReq[s].destroyed => proxyReq'[s].destroyed
            /\ proxyReq[s].errored => proxyReq'[s].errored
            /\ proxyReq'[s].errored => proxyReq'[s].destroyed
            /\ proxyReq'[s].options = proxyReq[s].options]_vars

C23_Witness ==
    \E s \in Sess :
        /\ Relay(s)
        /\ proxyReq[s].errored /\ proxyReq[s].destroyed
        /\ ~proxyReq[s].responded
        /\ Len(written[s]) = 1
        /\ written[s][1].data.status = 502
        /\ clientSocket[s].closed


(***************************************************************************)
(* Targets, stages and the allowlist (SpecClassify).                       *)
(***************************************************************************)
\* The request of the behaviour has been handled.
Classified == outcome[1] # "free"

\* C24: no request terminates the process.
C24_StaysRunning == \A s \in Sess : outcome[s] # "crash"

\* Everything the handlers of the session in slot s keep: its sockets, its
\* response, its upstream request and what was written for it.
SessionState(s) ==
    <<outcome[s], clientIP[s], target[s], head[s], clientSocket[s],
      targetSocket[s], res[s], proxyReq[s], written[s]>>

\* C25: a step changes the state of one session at most (SpecPair).
C25_Independent ==
    [][\A s, t \in Sess :
         s # t => \/ SessionState(s)' = SessionState(s)
                  \/ SessionState(t)' = SessionState(t)]_vars

\* The malformed targets: a CONNECT without host or with a port that is no
\* port number, a request without URL, an absolute URL without host.
BadConnectTargets == {<<":", "443">>, <<"example.com", ":", "abc">>,
                      <<"example.com", ":", "99999">>}
BadHttpTargets == {<<>>, <<"http://", "/a">>}
Malformed(r) ==
    IF r.method = "CONNECT" THEN r.url \in BadConnectTargets
    ELSE r.url \in BadHttpTargets

GateRejected == outcome[1] \in {"403", "407"}
NoUpstream(s) == ~targetSocket[s].created /\ ~proxyReq[s].created
ConnectionOver(s) ==
    clientSocket[s].writableEnded \/ clientSocket[s].destroyed

\* C26: a request with a malformed target that the gates let through is
\* answered with 400 or its connection is closed, and no upstream is opened.
C26_MalformedRejected ==
    (Classified /\ Malformed(probe) /\ ~GateRejected) =>
        /\ outcome[1] = "400" \/ ConnectionOver(1)
        /\ NoUpstream(1)

\* A standard method with a target without scheme.
RelativeTarget(r) ==
    /\ r.method # "CONNECT"
    /\ ~Falsy(r.url)
    /\ Head(r.url) \notin {"http://", "https://"}

\* C27: a request with a relative target that the gates let through gets the
\* static informational response, no upstream is opened and the connection
\* is closed.
C27_InfoAndClosed ==
    (Classified /\ RelativeTarget(probe) /\ ~GateRejected) =>
        /\ outcome[1] = "info"
        /\ Len(written[1]) = 1 /\ written[1][1].data.status = 200
        /\ NoUpstream(1)
        /\ ConnectionOver(1)

\* C28: GET /health is answered with a JSON status body, whoever asks.
C28_HealthAnswered ==
    (Classified /\ probe.method = "GET" /\ probe.url = <<"/health">>) =>
        /\ Len(written[1]) = 1
        /\ written[1][1].data.status = 200
        /\ <<"Content-Type", "application/json">> \in written[1][1].data.headers

\* C29: the target is classified before access control runs, so a request
\* that is neither a tunnel nor a relay candidate is answered without the
\* gates; and a request is delegated only when the gates admitted it.
C29_ClassifyGateDelegate ==
    Classified =>
        /\ RelativeTarget(probe) => ~GateRejected
        /\ outcome[1] \in {"tunnel", "relay"} =>
               checkIP(clientIP[1]) /\ checkAuth(probe.authHeader)

\* The address without a leading '::ffff:'.
WithoutPrefix(c) == IF c # <<>> /\ Head(c) = "::ffff:" THEN Tail(c) ELSE c
Allowlisted(c) ==
    ALLOWED_IPS = {} \/ c \in ALLOWED_IPS \/ WithoutPrefix(c) \in ALLOWED_IPS

\* C30: a request that reaches the allowlist gate is refused with 403 exactly
\* when the allowlist is not empty and holds neither the client address nor
\* the address without its '::ffff:' prefix.
C30_AllowlistAdmits ==
    (Classified /\ outcome[1] # "400") =>
        (outcome[1] = "403" <=> ~Allowlisted(clientIP[1]))

C30_Witness ==
    /\ ALLOWED_IPS = {AddrA}
    /\ clientIP[1] = MappedA
    /\ outcome[1] \in {"tunnel", "relay", "info"}


(***************************************************************************)
(* The target of a tunnel (SpecClassify).                                  *)
(***************************************************************************)
\* The authority 'host:port' read as RFC 3986 reads it: the port is what
\* follows the last colon, the host what precedes it; an IPv6 literal is a
\* host in brackets.
HostOf(url) ==
    IF Len(url) >= 3 /\ url[Len(url) - 1] = ":"
    THEN SubSeq(url, 1, Len(url) - 2) ELSE url
PortOf(url) ==
    IF Len(url) >= 3 /\ url[Len(url) - 1] = ":"
    THEN parseInt(<<url[Len(url)]>>) ELSE 443

\* C31: the upstream connection of an admitted CONNECT goes to the host and
\* the port of its target, and to port 443 when the target has no port.
C31_TargetAsRequested ==
    (probe.method = "CONNECT" /\ outcome[1] = "tunnel") =>
        /\ targetSocket[1].created
        /\ target[1] = [hostname |-> HostOf(probe.url),
                        port |-> PortOf(probe.url)]


(***************************************************************************)
(* The request timeout (SpecClassify).                                     *)
(***************************************************************************)
\* C32: the idle timeout of the upstream socket of a tunnel and the timeout
\* of the upstream request of a relay are both PROXY_TIMEOUT_MS, which is the
\* configured value or, without one, 1200000.
C32_ConfiguredTimeout ==
    /\ PROXY_TIMEOUT_MS \in {5000, 1200000}
    /\ outcome[1] = "tunnel" => targetSocket[1].timeout = PROXY_TIMEOUT_MS
    /\ outcome[1] = "relay" => proxyReq[1].timeout = PROXY_TIMEOUT_MS

C32_Witness ==
    /\ PROXY_TIMEOUT_MS = 5000
    /\ outcome[1] = "tunnel"
    /\ targetSocket[1].timeout = 5000


(***************************************************************************)
(* Graceful shutdown (SpecShutdown).                                       *)
(***************************************************************************)
\* C33: after the signal no connection is accepted, the signal itself leaves
\* every session as it was, and the process exits only when every client
\* connection has closed.
C33_GracefulShutdown ==
    [][/\ server # "listening" =>
            \A s \in Sess : outcome[s] = "free" => outcome'[s] = "free"
       /\ (server = "listening" /\ server' # "listening") =>
            /\ server' = "closing"
            /\ session' = session
       /\ (server # "exited" /\ server' = "exited") => Connections = {}]_vars

\* The process has exited after a tunnel and a relay, both open at the time
\* of the signal, ran to their end.
C33_Witness ==
    /\ server = "exited"
    /\ \E s, t \in Sess :
         /\ outcome[s] = "tunnel" /\ targetSocket[s].connected
         /\ outcome[t] = "relay" /\ proxyReq[t].responded /\ res[t].finished


(***************************************************************************)
(* The verbosity of the log (SpecLog).                                     *)
(***************************************************************************)
\* The order error < info < debug, and the verbosity a configured name
\* stands for: itself when it is one of the three, else info.
Rank(level) ==
    CASE level = <<"error">> -> 0 [] level = <<"info">> -> 1 [] OTHER -> 2
Verbosity == IF LOG_LEVEL \in MessageLevels THEN LOG_LEVEL ELSE <<"info">>

\* C34: a call of log prints exactly when its level is at or below the
\* configured verbosity, an unrecognised LOG_LEVEL counting as info.
C34_LevelFilter ==
    \A i \in DOMAIN console :
        console[i].printed <=> Rank(console[i].level) <= Rank(Verbosity)


(***************************************************************************)
(* One answer for each relayed request (SpecRelay).                        *)
(***************************************************************************)
\* The status lines written to the client of the session in slot s.
StatusLines(s) ==
    {i \in DOMAIN written[s] :
        written[s][i].to = "client" /\ written[s][i].data.kind = "http"}

\* C35: the client of a relayed request gets one status line at most, which
\* is the status of the upstream, 502 or 504.
C35_OneStatusLine ==
    outcome[1] = "relay" =>
        /\ Cardinality(StatusLines(1)) <= 1
        /\ res[1].headersSent <=> StatusLines(1) # {}

\* The upstream answered and then went idle: the timer fired after the
\* status line of the upstream.
C35_Witness ==
    /\ outcome[1] = "relay"
    /\ proxyReq[1].responded /\ proxyReq[1].timedOut
    /\ Cardinality(StatusLines(1)) = 1


(***************************************************************************)
(* The reply to CONNECT (Spec).                                            *)
(***************************************************************************)
Replied200(s) ==
    \E i \in DOMAIN written[s] :
        written[s][i].to = "client" /\ written[s][i].data = Established200

\* C36: '200 Connection Established' is written only in a session whose
\* upstream socket has connected; a session whose upstream socket was
\* destroyed before it connected has none.
C36_EstablishedAfterConnect ==
    \A s \in Sess :
        Replied200(s) => outcome[s] = "tunnel" /\ targetSocket[s].connected

\* A tunnel that was established and one whose connect failed.
C36_Witness ==
    \E s \in Sess :
        /\ outcome[s] = "tunnel"
        /\ targetSocket[s].connected
        /\ written[s][1] = [to |-> "client", data |-> Established200, ok |-> TRUE]

C36_FailedWitness ==
    \E s \in Sess :
        /\ outcome[s] = "tunnel"
        /\ targetSocket[s].destroyed /\ ~targetSocket[s].connected
        /\ written[s] # <<>>
        /\ ~Replied200(s)


(***************************************************************************)
(* When the credential gate is in force (SpecClassify).                    *)
(***************************************************************************)
Configured(value) == value # undefined /\ value # <<>>
Enforced ==
    Configured(PROXY_AUTH_USERNAME) /\ Configured(PROXY_AUTH_PASSWORD)

\* The request came as far as the credential gate.
AtCredentialGate ==
    /\ Classified
    /\ outcome[1] # "403"
    /\ ~(probe.method = "CONNECT" /\ outcome[1] = "400")

\* C37: a request is refused with 407 exactly when a username and a password
\* are both configured and it does not carry them; with one of the two
\* missing or empty every request passes, whatever its header.
C37_EnforcedWhenBothSet ==
    AtCredentialGate =>
        (outcome[1] = "407" <=>
            /\ Enforced
            /\ probe.authHeader
                 # Basic(PROXY_AUTH_USERNAME \o <<":">> \o PROXY_AUTH_PASSWORD))

C37_Witness ==
    /\ PROXY_AUTH_USERNAME = User
    /\ PROXY_AUTH_PASSWORD \in {undefined, <<>>}
    /\ probe.authHeader = Basic(User \o <<":">> \o <<"x">>)
    /\ outcome[1] \in {"tunnel", "relay", "info"}


(***************************************************************************)
(* The request-target of the outbound request (SpecRelay).                 *)
(***************************************************************************)
\* Path and query of an absolute URL as they stand in it, '/' for no path.
RequestTarget(url) ==
    LET start == IF Len(url) >= 4 /\ url[3] = ":" THEN 5 ELSE 3
        rest == SubSeq(url, start, Len(url))
    IN  IF rest = <<>> THEN <<"/">>
        ELSE IF Head(rest) \in {"/", "/a"} THEN rest
        ELSE <<"/">> \o rest

\* C38: the path of the outbound request is the path of the target URL
\* followed by its query string once.
C38_PathAndQueryOnce ==
    outcome[1] = "relay" =>
        proxyReq[1].options.path = RequestTarget(probe.url)


(***************************************************************************)
(* The end of a relayed request (SpecRelayFair).                           *)
(***************************************************************************)
\* C39: the response to a relayed request is eventually ended, or the
\* client connection closed.
C39_RelayTerminates ==
    (outcome[1] = "relay") ~> (res[1].finished \/ clientSocket[1].closed)


=============================================================================
